---- MODULE Spec2Model ----
(***************************************************************************)
(* UConnect secret chat: the chat-request lifecycle (routes/chat.js on the *)
(* ChatRequest model), the room access routes, and the socket handlers of  *)
(* app.js that carry private messages.                                     *)
(*                                                                         *)
(* Time is counted in units of 24 hours: the room lives RoomTTL = 1 unit   *)
(* and a request RequestTTL = 2 units.  A room id `secret_<ts>_<random>`   *)
(* is the pair <<ts, random>>.                                             *)
(***************************************************************************)
EXTENDS Integers, Sequences, FiniteSets, TLC

\* ---------------------------------------------------------------- bounds
MaxTime == 3
MaxRequests == 2
NumRandom == 1
NumCalls == 2
MaxMessages == 1
MaxJoins == 1
MaxThread == 2

\* ------------------------------------------------------ program constants
RequestTTL == 2
RoomTTL == 1
MinRequestMessage == 5
MaxRequestMessage == 200
MaxChatMessage == 1000
MaxEmoji == 10
HistoryLimit == 100

\* ------------------------------------------------------------ static data
Users == {"u1", "u2", "u3"}
NoUser == "nobody"
Posts == {"p1", "p2"}
NoPost == "nopost"

\* the users who submit chat requests in the model: one student of campus
\* cx (u2 is the fellow student) and the student of campus cy
Requesters == {"u1", "u3"}

userCampus(u) == IF u = "u3" THEN "cy" ELSE "cx"
postCampus(p) == IF p = "p2" THEN "cy" ELSE "cx"

\* texts are tokens; TextLen gives the length the validators see
Texts == {"", "a", "hi", "four", "hello", "spaces5", "long200", "long201", "long1001"}
TextLen(t) ==
    CASE t = "" -> 0
      [] t = "a" -> 1
      [] t = "hi" -> 2
      [] t = "four" -> 4
      [] t = "hello" -> 5
      [] t = "spaces5" -> 5
      [] t = "long200" -> 200
      [] t = "long201" -> 201
      [] t = "long1001" -> 1001

\* .trim(): the text without the white space around it; "spaces5" is five
\* blanks, no other text of the model starts or ends with white space
Trim(t) == IF t = "spaces5" THEN "" ELSE t

\* reaction emojis are tokens too; EmojiLen gives the length maxlength sees
Emojis == {"up", "heart", "long11"}
EmojiLen(e) == IF e = "long11" THEN 11 ELSE 1

Calls == 1..NumCalls
Sockets == {"s1"}
Times == 0..MaxTime

\* an id arrives in a request body as a 24-digit hex string; the same id
\* can be spelled with its letters in lower or in upper case
IdForms == {"lower", "upper"}

\* _id.toString(): the hex string of an ObjectId, letters in lower case
ObjectIdString(u) == <<u, "lower">>

\* the cast mongoose applies to an id string in a query or a document path:
\* the ObjectId of the hex digits, whatever the case of the letters
CastObjectId(idString) == idString[1]

\* the id strings isMongoId() lets through: 24 hex digits of either case
MongoIds == (Users \cup {NoUser}) \X IdForms
LowerIds == {ObjectIdString(u) : u \in Users \cup {NoUser}}

\* the socket.io channel `user_<id string>`
UserChannel(idString) == <<"user", idString[1], idString[2]>>
UserChannels == {UserChannel(i) : i \in Users \X IdForms}

\* the settings app.js stores with app.set(): the socket.io server under 'io'
AppSettings == {"io"}

NoRoom == <<>>
NoDate == 0 - 1
NoResponse == "noresponse"
NoMessage == "nomessage"
BogusRoom == <<"bogus">>

VARIABLES
    now,        \* the server clock, in units of 24 h
    requests,   \* the ChatRequest collection: sequence of documents, _id = index
    messages,   \* the PrivateChat collection: sequence of documents
    call,       \* the HTTP calls in flight: what each awaits
    resp,       \* the response sent by the step just taken (or NoResp)
    sockUser,   \* socket.userId of each socket
    sockRooms,  \* the socket.io rooms each socket has joined
    minted,     \* history: the <<request id, room id>> pairs ever stored
    events      \* the socket.io events emitted by the step just taken

vars == <<now, requests, messages, call, resp, sockUser, sockRooms, minted, events>>

Idle == [pc |-> "idle"]

\* the calls are anonymous: a new call takes the lowest free slot
FreeSlot(p) == call[p] = Idle /\ \A q \in Calls : q < p => call[q] # Idle
NoResp == [kind |-> "none", outcome |-> "none"]

\* -------------------------------------------------- ChatRequest model

\* chatRequestSchema.methods.generateRoomId: timestamp plus random bytes
generateRoomId(t, rnd) == <<t, rnd>>

\* isExpired with the comparison turned round
isExpiredReversed(doc, t) == t < doc.requestExpiry

\* chatRequestSchema.methods.isExpired: new Date() > this.requestExpiry
isExpired(doc, t) == t > doc.requestExpiry

\* isRoomExpired with the comparison turned round
isRoomExpiredReversed(doc, t) == doc.roomExpiry # NoDate /\ t < doc.roomExpiry

\* chatRequestSchema.methods.isRoomExpired:
\* this.roomExpiry && new Date() > this.roomExpiry
isRoomExpired(doc, t) == doc.roomExpiry # NoDate /\ t > doc.roomExpiry

\* new ChatRequest({...}) with the schema defaults
NewChatRequest(u, target, post, message, t) ==
    [requester |-> u, target |-> target, post |-> post, message |-> message,
     status |-> "pending", roomId |-> NoRoom, roomExpiry |-> NoDate,
     requestExpiry |-> t + RequestTTL, response |-> NoResponse,
     campus |-> userCampus(u), isActive |-> TRUE]

\* the fields acceptRequest sets before save()
acceptRequest(t, rnd) ==
    [status |-> "accepted", roomId |-> generateRoomId(t, rnd), roomExpiry |-> t + RoomTTL]

\* the unique sparse index on roomId: a write of roomId to document id is
\* refused when another document holds that roomId
RoomIdTaken(reqs, id, set) ==
    /\ "roomId" \in DOMAIN set
    /\ \E j \in 1..Len(reqs) : j # id /\ reqs[j].roomId = set.roomId

\* document.save() of an existing document: $set of the modified paths only
SaveFields(doc, set) == set @@ doc

\* the filter with its first clause only
CleanExpiredMatchesPending(doc, t) ==
    doc.requestExpiry < t /\ doc.status = "pending"

\* the filter of cleanExpired's updateMany
CleanExpiredMatches(doc, t) ==
    \/ (doc.requestExpiry < t /\ doc.status = "pending")
    \/ (doc.roomExpiry # NoDate /\ doc.roomExpiry < t /\ doc.status = "accepted")

\* the sweep with an update that flips isActive instead of clearing it, on
\* every request past its requestExpiry
cleanExpiredToggle(reqs, t) ==
    [i \in 1..Len(reqs) |->
        IF reqs[i].requestExpiry < t
        THEN [reqs[i] EXCEPT !.status = "expired", !.isActive = ~@]
        ELSE reqs[i]]

\* chatRequestSchema.statics.cleanExpired
cleanExpired(reqs, t) ==
    [i \in 1..Len(reqs) |->
        IF CleanExpiredMatches(reqs[i], t)
        THEN [reqs[i] EXCEPT !.status = "expired", !.isActive = FALSE]
        ELSE reqs[i]]

Init ==
    /\ now = 0
    /\ requests = <<>>
    /\ messages = <<>>
    /\ call = [p \in Calls |-> Idle]
    /\ resp = NoResp
    /\ sockUser = [s \in Sockets |-> NoUser]
    /\ sockRooms = [s \in Sockets |-> {}]
    /\ minted = {}
    /\ events = {}

Tick ==
    /\ now < MaxTime
    /\ now' = now + 1
    /\ resp' = NoResp
    /\ UNCHANGED <<requests, messages, call, sockUser, sockRooms, minted>>
    /\ events' = {}

\* ------------------------------------------- POST /chat/request

\* the validator with the bounds 1 and 200
RequestMessageValid1To200(message) ==
    TextLen(message) >= 1 /\ TextLen(message) <= MaxRequestMessage

\* body('message').isLength({ min: 5, max: 200 }), run on the text as sent:
\* the chain trims it only afterwards
RequestMessageValid(message) ==
    TextLen(message) >= MinRequestMessage /\ TextLen(message) <= MaxRequestMessage

\* the pending-duplicate query without its requester and target conditions
ExistingPendingAnyPair(reqs, u, target, post) ==
    \E i \in 1..Len(reqs) :
        /\ reqs[i].post = post
        /\ reqs[i].status = "pending"
        /\ reqs[i].requester # u
        /\ reqs[i].target # target

\* ChatRequest.findOne({requester, target, post, status: 'pending'})
ExistingPending(reqs, u, target, post) ==
    \E i \in 1..Len(reqs) :
        /\ reqs[i].requester = u
        /\ reqs[i].target = target
        /\ reqs[i].post = post
        /\ reqs[i].status = "pending"

\* the checks of the handler with the campus comparison of the target left out
CreateOutcomeNoCampus(reqs, u, recipientId, post, message) ==
    LET target == CastObjectId(recipientId) IN
    IF ~RequestMessageValid(message) THEN "validation"
    ELSE IF target \notin Users THEN "campus"
    ELSE IF post \notin Posts \/ postCampus(post) # userCampus(u) THEN "post"
    ELSE IF recipientId = ObjectIdString(u) THEN "self"
    ELSE IF ExistingPending(reqs, u, target, post) THEN "duplicate"
    ELSE "ok"

\* the checks of the handler, in the order of the code, up to the findOne;
\* recipientId is the string of the body: User.findById and the findOne
\* cast it, the self check compares it with req.user._id.toString()
CreateOutcome(reqs, u, recipientId, post, message) ==
    LET target == CastObjectId(recipientId) IN
    IF ~RequestMessageValid(message) THEN "validation"
    ELSE IF target \notin Users \/ userCampus(target) # userCampus(u) THEN "campus"
    ELSE IF post \notin Posts \/ postCampus(post) # userCampus(u) THEN "post"
    ELSE IF recipientId = ObjectIdString(u) THEN "self"
    ELSE IF ExistingPending(reqs, u, target, post) THEN "duplicate"
    ELSE "ok"

CreatesInFlight == Cardinality({q \in Calls : call[q].pc = "create_save"})

\* the handler up to `await chatRequest.save()`: validation, lookups, the
\* pending-duplicate query and the construction of the document
CreateCheck(p, u, recipientId, post, message) ==
    /\ FreeSlot(p)
    /\ Len(requests) + CreatesInFlight < MaxRequests
    /\ LET o == CreateOutcome(requests, u, recipientId, post, message) IN
        IF o = "ok"
        THEN /\ call' = [call EXCEPT ![p] =
                    [pc |-> "create_save", user |-> u, recipientId |-> recipientId,
                     doc |-> NewChatRequest(u, CastObjectId(recipientId), post,
                                            Trim(message), now)]]
             /\ resp' = NoResp
        ELSE /\ call' = call
             /\ resp' = [kind |-> "create", outcome |-> o]
    /\ UNCHANGED <<now, requests, messages, sockUser, sockRooms, minted>>
    /\ events' = {}

\* an emit of io.to(channel).emit(name, payload): id is the _id the payload
\* names, data the stored values it repeats
Emit(name, channel, id, data) ==
    [name |-> name, channel |-> channel, id |-> id, data |-> data]

\* the insert with the document never reaching the collection
InsertRequestLost(reqs, doc) == reqs

\* the collection after the insert of a new document
InsertRequest(reqs, doc) == Append(reqs, doc)

\* the emit of POST /chat/request, made once save() has resolved: to the
\* channel named by the recipientId string of the body
RequestCreatedEvents(recipientId, id, doc) ==
    IF "io" \in AppSettings
    THEN {Emit("newChatRequest", UserChannel(recipientId), id,
               [requester |-> doc.requester, message |-> doc.message, post |-> doc.post])}
    ELSE {}

\* the validation save() runs on a new ChatRequest: message is required
\* (an empty string does not count) and at most 200 characters
ChatRequestValid(doc) ==
    TextLen(doc.message) >= 1 /\ TextLen(doc.message) <= MaxRequestMessage

\* chatRequest.save() completes: the insert, the emit, then res.json
\* success; a document that fails validation is not inserted and the
\* handler answers 500 from its catch block
CreateSave(p) ==
    /\ call[p].pc = "create_save"
    /\ IF ChatRequestValid(call[p].doc)
       THEN /\ requests' = InsertRequest(requests, call[p].doc)
            /\ events' = RequestCreatedEvents(call[p].recipientId, Len(requests) + 1,
                                              call[p].doc)
            /\ resp' = [kind |-> "create", outcome |-> "ok"]
       ELSE /\ requests' = requests
            /\ events' = {}
            /\ resp' = [kind |-> "create", outcome |-> "error"]
    /\ call' = [call EXCEPT ![p] = Idle]
    /\ UNCHANGED <<now, messages, sockUser, sockRooms, minted>>

\* ------------------------------------- POST /chat/respond/:requestId

\* the checks of the handler with the target check widened to both
\* users of the request
RespondOutcomeParticipant(reqs, t, u, id) ==
    IF id > Len(reqs) THEN "not_found"
    ELSE IF reqs[id].target # u /\ reqs[id].requester # u THEN "forbidden"
    ELSE IF reqs[id].status # "pending" THEN "already_responded"
    ELSE IF isExpired(reqs[id], t) THEN "expired"
    ELSE "ok"

\* the checks on the document findById returned, in the order of the code
RespondOutcome(reqs, t, u, id) ==
    IF id > Len(reqs) THEN "not_found"
    ELSE IF reqs[id].target # u THEN "forbidden"
    ELSE IF reqs[id].status # "pending" THEN "already_responded"
    ELSE IF isExpired(reqs[id], t) THEN "expired"
    ELSE "ok"

\* the paths the handler modifies before it calls save()
RespondFields(outcome, action, t, rnd) ==
    IF outcome = "expired" THEN [status |-> "expired"]
    ELSE IF action = "accept" THEN [response |-> ""] @@ acceptRequest(t, rnd)
    ELSE [status |-> "rejected", response |-> ""]

\* findById resolves and the handler runs to its first save()
RespondFind(p, u, id, action, rnd) ==
    /\ FreeSlot(p)
    /\ LET o == RespondOutcome(requests, now, u, id) IN
        IF o \in {"ok", "expired"}
        THEN /\ call' = [call EXCEPT ![p] =
                    [pc |-> "respond_save", user |-> u, id |-> id,
                     outcome |-> o, set |-> RespondFields(o, action, now, rnd)]]
             /\ resp' = NoResp
        ELSE /\ call' = call
             /\ resp' = [kind |-> "respond", outcome |-> o]
    /\ UNCHANGED <<now, requests, messages, sockUser, sockRooms, minted>>
    /\ events' = {}

\* the emit of POST /chat/respond/:requestId after an accept or a reject:
\* the handler asks the app for 'socketio' and emits only if it gets one
ResponseEvents(outcome, requester, id, set) ==
    IF outcome = "ok" /\ "socketio" \in AppSettings
    THEN {Emit("chatResponse", UserChannel(ObjectIdString(requester)), id,
               [status |-> set.status,
                roomId |-> IF "roomId" \in DOMAIN set THEN set.roomId ELSE NoRoom])}
    ELSE {}

\* save() completes: updateOne({_id}, {$set: modified paths}); a duplicate
\* roomId is refused by the unique index and the handler answers 500
RespondSave(p) ==
    /\ call[p].pc = "respond_save"
    /\ LET c == call[p] IN
        IF RoomIdTaken(requests, c.id, c.set)
        THEN /\ resp' = [kind |-> "respond", outcome |-> "error"]
             /\ events' = {}
             /\ UNCHANGED <<requests, minted>>
        ELSE /\ requests' = [requests EXCEPT ![c.id] = SaveFields(@, c.set)]
             /\ resp' = [kind |-> "respond", outcome |-> c.outcome]
             /\ events' = ResponseEvents(c.outcome, requests[c.id].requester, c.id, c.set)
             /\ minted' = IF "roomId" \in DOMAIN c.set
                          THEN minted \cup {<<c.id, c.set.roomId>>}
                          ELSE minted
    /\ call' = [call EXCEPT ![p] = Idle]
    /\ UNCHANGED <<now, messages, sockUser, sockRooms>>

\* ------------------------------------- POST /chat/request/respond

\* the enum of the status path of chatRequestSchema
StatusEnum == {"pending", "accepted", "rejected", "expired"}

\* the instance methods chatRequestSchema defines
ChatRequestMethods == {"generateRoomId", "isExpired", "isRoomExpired", "acceptRequest"}

\* the handler: 404, the target check on the id strings, the pending check;
\* then status = response, for accept a call of setRoomExpiry (a TypeError
\* when the schema has no such method), then save(), which validates status
\* against its enum; an exception ends the handler in its catch block
respondAltOutcome(reqs, u, id, response) ==
    IF id > Len(reqs) THEN "not_found"
    ELSE IF ObjectIdString(reqs[id].target) # ObjectIdString(u) THEN "forbidden"
    ELSE IF reqs[id].status # "pending" THEN "already_responded"
    ELSE IF response = "accept" /\ "setRoomExpiry" \notin ChatRequestMethods THEN "error"
    ELSE IF response \notin StatusEnum THEN "error"
    ELSE "ok"

\* the emit of POST /chat/request/respond, made once save() has resolved
AltResponseEvents(outcome, requester, id, response) ==
    IF outcome = "ok" /\ "io" \in AppSettings
    THEN {Emit("chatRequestResponse", UserChannel(ObjectIdString(requester)), id,
               [status |-> response, roomId |-> NoRoom])}
    ELSE {}

\* POST /chat/request/respond, the whole handler: nothing is written unless
\* save() is reached and its validation passes
RespondAlt(u, id, response) ==
    /\ LET o == respondAltOutcome(requests, u, id, response) IN
        /\ requests' = IF o = "ok"
                       THEN [requests EXCEPT ![id] = SaveFields(@, [status |-> response])]
                       ELSE requests
        /\ resp' = [kind |-> "respond_alt", outcome |-> o]
        /\ events' = IF id <= Len(requests)
                     THEN AltResponseEvents(o, requests[id].requester, id, response)
                     ELSE {}
    /\ UNCHANGED <<now, messages, call, sockUser, sockRooms, minted>>

\* ChatRequest.cleanExpired(): one updateMany
CleanExpired ==
    /\ requests' = cleanExpired(requests, now)
    /\ resp' = NoResp
    /\ UNCHANGED <<now, messages, call, sockUser, sockRooms, minted>>
    /\ events' = {}

\* the updateMany of cleanExpired seen document by document: the server
\* matches and updates each document atomically, in no fixed order, with
\* the time the call took from new Date() when it built the filter; base is
\* the collection as the run found it
SweepInFlight == {q \in Calls : call[q].pc = "sweep"}

SweepStart(p) ==
    /\ FreeSlot(p)
    /\ \A q \in Calls : call[q].pc \in {"idle", "sweep"}
    /\ call' = [call EXCEPT ![p] =
            [pc |-> "sweep", t |-> now, todo |-> 1..Len(requests), base |-> requests]]
    /\ resp' = NoResp
    /\ events' = {}
    /\ UNCHANGED <<now, requests, messages, sockUser, sockRooms, minted>>

SweepDoc(p, i) ==
    /\ call[p].pc = "sweep"
    /\ i \in call[p].todo
    /\ requests' = [requests EXCEPT ![i] = cleanExpired(requests, call[p].t)[i]]
    /\ call' = [call EXCEPT ![p].todo = @ \ {i}]
    /\ resp' = NoResp
    /\ events' = {}
    /\ UNCHANGED <<now, messages, sockUser, sockRooms, minted>>

SweepEnd(p) ==
    /\ call[p].pc = "sweep"
    /\ call[p].todo = {}
    /\ call' = [call EXCEPT ![p] = Idle]
    /\ resp' = NoResp
    /\ events' = {}
    /\ UNCHANGED <<now, requests, messages, sockUser, sockRooms, minted>>

\* ---------------------------------------------- room access routes

HasRoom(reqs, rid) == \E i \in 1..Len(reqs) : reqs[i].roomId = rid
RoomOwner(reqs, rid) == CHOOSE i \in 1..Len(reqs) : reqs[i].roomId = rid

isParticipant(doc, u) == doc.requester = u \/ doc.target = u

\* GET /chat/private/:roomId
privateAccess(reqs, t, u, rid) ==
    IF ~HasRoom(reqs, rid) THEN "not_found"
    ELSE LET doc == reqs[RoomOwner(reqs, rid)] IN
         IF ~isParticipant(doc, u) THEN "denied"
         ELSE IF isRoomExpired(doc, t) THEN "expired"
         ELSE "granted"

\* ChatRequest.findOne({roomId, status: 'accepted', isActive: true})
ActiveRoomMatches(doc, rid) ==
    doc.roomId = rid /\ doc.status = "accepted" /\ doc.isActive

\* GET /chat/room/:roomId
roomAccess(reqs, t, u, rid) ==
    IF ~\E i \in 1..Len(reqs) : ActiveRoomMatches(reqs[i], rid)
    THEN "not_found_or_expired"
    ELSE LET doc == reqs[CHOOSE i \in 1..Len(reqs) : ActiveRoomMatches(reqs[i], rid)] IN
         IF ~isParticipant(doc, u) THEN "denied"
         ELSE IF doc.roomExpiry # NoDate /\ t > doc.roomExpiry THEN "expired"
         ELSE "granted"

\* GET /chat/requests, the activeChats query: the requests of user u that
\* are accepted and active with a roomId and roomExpiry > new Date() (the
\* result is cut to 10 documents, more than the model ever stores)
activeChats(reqs, t, u) ==
    {i \in 1..Len(reqs) :
        /\ (reqs[i].requester = u \/ reqs[i].target = u)
        /\ reqs[i].status = "accepted"
        /\ reqs[i].roomId # NoRoom
        /\ reqs[i].roomExpiry # NoDate
        /\ reqs[i].roomExpiry > t
        /\ reqs[i].isActive}

\* the room ids a client may present: every id ever minted, and a made-up one
KnownRoomIds == {m[2] : m \in minted} \cup {BogusRoom}

AccessPrivate(u, rid) ==
    /\ resp' = [kind |-> "private", outcome |-> privateAccess(requests, now, u, rid)]
    /\ UNCHANGED <<now, requests, messages, call, sockUser, sockRooms, minted>>
    /\ events' = {}

AccessRoom(u, rid) ==
    /\ resp' = [kind |-> "room", outcome |-> roomAccess(requests, now, u, rid)]
    /\ UNCHANGED <<now, requests, messages, call, sockUser, sockRooms, minted>>
    /\ events' = {}

\* -------------------------------------------- socket handlers (app.js)

Campuses == {<<"cx">>, <<"cy">>}

\* socket.on('setUserId'): the client names the user id itself
SetUserId(s, u) ==
    /\ sockUser' = [sockUser EXCEPT ![s] = u]
    /\ resp' = NoResp
    /\ UNCHANGED <<now, requests, messages, call, sockRooms, minted>>
    /\ events' = {}

\* socket.on('joinPrivateRoom'): socket.join(roomId)
JoinPrivateRoom(s, rid) ==
    /\ Cardinality(sockRooms[s] \cup {rid}) <= MaxJoins
    /\ sockRooms' = [sockRooms EXCEPT ![s] = @ \cup {rid}]
    /\ resp' = NoResp
    /\ UNCHANGED <<now, requests, messages, call, sockUser, minted>>
    /\ events' = {}

\* socket.on('join-campus'): socket.join(campus), whatever string it is
JoinCampus(s, campus) ==
    /\ Cardinality(sockRooms[s] \cup {campus}) <= MaxJoins
    /\ sockRooms' = [sockRooms EXCEPT ![s] = @ \cup {campus}]
    /\ resp' = NoResp
    /\ UNCHANGED <<now, requests, messages, call, sockUser, minted>>
    /\ events' = {}

\* the PrivateChat schema validation run by save(): roomId, sender and
\* message are required, message is at most 1000 characters
PrivateChatValid(rid, sender, text) ==
    /\ rid # NoRoom
    /\ sender # NoUser
    /\ TextLen(text) >= 1
    /\ TextLen(text) <= MaxChatMessage

\* new PrivateChat({roomId, sender, message}) with the schema defaults
NewPrivateChat(rid, sender, text, t) ==
    [roomId |-> rid, sender |-> sender, message |-> text, createdAt |-> t,
     reactions |-> <<>>, isEdited |-> FALSE, originalMessage |-> NoMessage,
     isDeleted |-> FALSE]

\* the paths a PrivateChat document has: those of the schema, and
\* createdAt / updatedAt of timestamps: true
PrivateChatPaths ==
    {"roomId", "sender", "message", "messageType", "isRead", "readAt", "reactions",
     "isEdited", "editedAt", "originalMessage", "isDeleted", "deletedAt",
     "createdAt", "updatedAt"}

\* the emit of sendPrivateMessage, made after save() and populate(): the
\* payload is built with newMessage.timestamp.toLocaleTimeString(), which
\* throws when the document has no path `timestamp`
MessageEvents(rid, id, text) ==
    IF "timestamp" \in PrivateChatPaths
    THEN {Emit("newPrivateMessage", rid, id, [message |-> text])}
    ELSE {}

\* socket.on('sendPrivateMessage'): the message is saved with no check of
\* the room or of the sender; an exception (validation, or the payload)
\* ends the handler in its catch block with messageError
SendPrivateMessage(s, rid, text) ==
    /\ IF PrivateChatValid(rid, sockUser[s], text)
       THEN /\ messages' = Append(messages, NewPrivateChat(rid, sockUser[s], text, now))
            /\ events' = MessageEvents(rid, Len(messages) + 1, text)
            /\ resp' = [kind |-> "send",
                        outcome |-> IF "timestamp" \in PrivateChatPaths
                                    THEN "sent" ELSE "messageError"]
       ELSE /\ messages' = messages
            /\ events' = {}
            /\ resp' = [kind |-> "send", outcome |-> "messageError"]
    /\ UNCHANGED <<now, requests, call, sockUser, sockRooms, minted>>

\* ------------------------------------------ PrivateChat model methods

\* privateChatSchema.methods.editMessage, up to save()
editMessage(doc, newMessage) ==
    [doc EXCEPT !.originalMessage = doc.message,
                !.message = newMessage,
                !.isEdited = TRUE]

\* privateChatSchema.methods.deleteMessage, up to save()
deleteMessage(doc) == [doc EXCEPT !.isDeleted = TRUE]

\* addReaction without the removal of the user's earlier reaction
addReactionNoFilter(doc, userId, emoji) ==
    [doc EXCEPT !.reactions = Append(@, [user |-> userId, emoji |-> emoji])]

\* privateChatSchema.methods.addReaction, up to save(): filter, then push
addReaction(doc, userId, emoji) ==
    [doc EXCEPT !.reactions =
        Append(SelectSeq(@, LAMBDA r : r.user # userId),
               [user |-> userId, emoji |-> emoji])]

\* the validation save() runs on a PrivateChat document
PrivateChatDocValid(doc) ==
    /\ PrivateChatValid(doc.roomId, doc.sender, doc.message)
    /\ \A k \in 1..Len(doc.reactions) : EmojiLen(doc.reactions[k].emoji) <= MaxEmoji

\* document.save() of a changed message: stored if it validates
SaveMessage(i, doc, kind) ==
    /\ IF PrivateChatDocValid(doc)
       THEN /\ messages' = [messages EXCEPT ![i] = doc]
            /\ resp' = [kind |-> kind, outcome |-> "ok"]
       ELSE /\ messages' = messages
            /\ resp' = [kind |-> kind, outcome |-> "error"]
    /\ events' = {}
    /\ UNCHANGED <<now, requests, call, sockUser, sockRooms, minted>>

EditMessage(i, newMessage) ==
    /\ i \in 1..Len(messages)
    /\ SaveMessage(i, editMessage(messages[i], newMessage), "edit")

DeleteMessage(i) ==
    /\ i \in 1..Len(messages)
    /\ SaveMessage(i, deleteMessage(messages[i]), "delete")

AddReaction(i, userId, emoji) ==
    /\ i \in 1..Len(messages)
    /\ SaveMessage(i, addReaction(messages[i], userId, emoji), "react")

\* ------------------------------------------------- message history

\* .limit(100)
Limit(h) == SubSeq(h, 1, IF Len(h) < HistoryLimit THEN Len(h) ELSE HistoryLimit)

\* one step of the ascending sort on createdAt: m goes behind every
\* document that is not newer
RECURSIVE InsertByCreatedAt(_, _)
InsertByCreatedAt(sorted, m) ==
    IF sorted = <<>> THEN <<m>>
    ELSE IF Head(sorted).createdAt <= m.createdAt
         THEN <<Head(sorted)>> \o InsertByCreatedAt(Tail(sorted), m)
         ELSE <<m>> \o sorted

\* .sort({ createdAt: 1 })
RECURSIVE SortByCreatedAt(_)
SortByCreatedAt(h) ==
    IF h = <<>> THEN <<>>
    ELSE InsertByCreatedAt(SortByCreatedAt(SubSeq(h, 1, Len(h) - 1)), h[Len(h)])

\* GET /chat/private/:roomId:
\* find({roomId, isDeleted: false}).sort({createdAt: 1}).limit(100)
privateHistory(msgs, rid) ==
    Limit(SortByCreatedAt(SelectSeq(msgs, LAMBDA m : m.roomId = rid /\ ~m.isDeleted)))

\* the orders of the documents of h
Orders(h) ==
    {[k \in 1..Len(h) |-> h[f[k]]] :
        f \in {g \in [1..Len(h) -> 1..Len(h)] :
                    \A a \in 1..Len(h), b \in 1..Len(h) : g[a] = g[b] => a = b}}

\* GET /chat/room/:roomId: find({roomId}).sort({timestamp: 1}).limit(100);
\* no document has a path `timestamp`, so the sort key is equal for all of
\* them and any order of the matching documents can come back
roomHistories(msgs, rid) ==
    {Limit(h) : h \in Orders(SelectSeq(msgs, LAMBDA m : m.roomId = rid))}

Next ==
    \/ Tick
    \/ \E p \in Calls, u \in Requesters, recipientId \in LowerIds,
          post \in Posts \cup {NoPost}, message \in {"hi", "hello", "long201"} :
            CreateCheck(p, u, recipientId, post, message)
    \/ \E p \in Calls : CreateSave(p)
    \/ \E p \in Calls, u \in Users, id \in 1..MaxRequests,
          action \in {"accept", "reject"}, rnd \in 1..NumRandom :
            RespondFind(p, u, id, action, rnd)
    \/ \E p \in Calls : RespondSave(p)
    \/ CleanExpired


NextAccess ==
    \/ Next
    \/ \E u \in Users, rid \in KnownRoomIds : AccessPrivate(u, rid)
    \/ \E u \in Users, rid \in KnownRoomIds : AccessRoom(u, rid)

\* the lifecycle with one HTTP call at a time, and the socket handlers
NextSocket ==
    \/ Tick
    \/ \E u \in Requesters, recipientId \in LowerIds,
          post \in Posts \cup {NoPost}, message \in {"hi", "hello", "long201"} :
            Len(requests) = 0 /\ CreateCheck(1, u, recipientId, post, message)
    \/ CreateSave(1)
    \/ \E u \in Users, id \in 1..MaxRequests,
          action \in {"accept", "reject"}, rnd \in 1..NumRandom :
            RespondFind(1, u, id, action, rnd)
    \/ RespondSave(1)
    \/ \E s \in Sockets, u \in Users : SetUserId(s, u)
    \/ \E s \in Sockets, rid \in KnownRoomIds : JoinPrivateRoom(s, rid)
    \/ \E s \in Sockets, c \in Campuses \cup KnownRoomIds \cup UserChannels :
            JoinCampus(s, c)
    \/ \E s \in Sockets, rid \in KnownRoomIds \cup {NoRoom},
          text \in {"", "hello", "long1001"} :
            Len(messages) < MaxMessages /\ SendPrivateMessage(s, rid, text)

\* POST /chat/request alone, with every spelling of the recipient id the
\* validator accepts, and the expiry sweep
NextCreate ==
    \/ Tick
    \/ \E p \in Calls, u \in Users, recipientId \in MongoIds,
          post \in Posts \cup {NoPost}, message \in {"hi", "hello", "long201"} :
            CreateCheck(p, u, recipientId, post, message)
    \/ \E p \in Calls : CreateSave(p)
    \/ CleanExpired

\* the lifecycle with one HTTP call at a time and both respond endpoints
NextRespond ==
    \/ Tick
    \/ \E u \in Requesters, recipientId \in LowerIds,
          post \in Posts \cup {NoPost}, message \in {"hi", "hello", "long201"} :
            CreateCheck(1, u, recipientId, post, message)
    \/ CreateSave(1)
    \/ \E u \in Users, id \in 1..MaxRequests,
          action \in {"accept", "reject"}, rnd \in 1..NumRandom :
            RespondFind(1, u, id, action, rnd)
    \/ RespondSave(1)
    \/ \E u \in Users, id \in 1..MaxRequests, response \in {"accept", "reject"} :
            RespondAlt(u, id, response)
    \/ CleanExpired

\* the methods of one stored message
NextMessage ==
    \/ \E s \in Sockets, u \in Users : SetUserId(s, u)
    \/ \E s \in Sockets, rid \in KnownRoomIds \cup {NoRoom}, text \in {"", "hello"} :
            Len(messages) < MaxMessages /\ SendPrivateMessage(s, rid, text)
    \/ \E i \in 1..MaxMessages, text \in {"", "hi", "hello"} : EditMessage(i, text)
    \/ \E i \in 1..MaxMessages : DeleteMessage(i)
    \/ \E i \in 1..MaxMessages, u \in {"u1", "u2"}, emoji \in Emojis :
            AddReaction(i, u, emoji)

\* one request through its lifecycle, and the messages of its room
NextHistory ==
    \/ Tick
    \/ \E u \in Requesters, recipientId \in LowerIds,
          post \in Posts \cup {NoPost}, message \in {"hi", "hello", "long201"} :
            Len(requests) = 0 /\ CreateCheck(1, u, recipientId, post, message)
    \/ CreateSave(1)
    \/ \E u \in Users, id \in 1..MaxRequests,
          action \in {"accept", "reject"}, rnd \in 1..NumRandom :
            RespondFind(1, u, id, action, rnd)
    \/ RespondSave(1)
    \/ \E s \in Sockets, u \in {"u1", "u2"} : SetUserId(s, u)
    \/ \E s \in Sockets, rid \in KnownRoomIds \ {BogusRoom} :
            Len(messages) < MaxThread /\ SendPrivateMessage(s, rid, "hello")
    \/ \E i \in 1..MaxThread : DeleteMessage(i)

\* the lifecycle with one HTTP call at a time, and runs of the sweep that
\* overlap each other at one time value
NextSweep ==
    \/ SweepInFlight = {} /\ Tick
    \/ \E u \in Requesters, recipientId \in LowerIds,
          post \in Posts \cup {NoPost}, message \in {"hi", "hello", "long201"} :
            SweepInFlight = {} /\ CreateCheck(1, u, recipientId, post, message)
    \/ CreateSave(1)
    \/ \E u \in Users, id \in 1..MaxRequests,
          action \in {"accept", "reject"}, rnd \in 1..NumRandom :
            SweepInFlight = {} /\ RespondFind(1, u, id, action, rnd)
    \/ RespondSave(1)
    \/ \E p \in Calls : SweepStart(p)
    \/ \E p \in Calls, i \in 1..MaxRequests : SweepDoc(p, i)
    \/ \E p \in Calls : SweepEnd(p)

\* POST /chat/request, one call at a time, with every text of the model
NextValidate ==
    \/ Tick
    \/ \E u \in Requesters, recipientId \in LowerIds,
          post \in Posts \cup {NoPost}, message \in Texts :
            CreateCheck(1, u, recipientId, post, message)
    \/ CreateSave(1)
    \/ CleanExpired

Spec == Init /\ [][Next]_vars
SpecValidate == Init /\ [][NextValidate]_vars
SpecSweep == Init /\ [][NextSweep]_vars
SpecMessage == Init /\ [][NextMessage]_vars
SpecHistory == Init /\ [][NextHistory]_vars
SpecRespond == Init /\ [][NextRespond]_vars
SpecCreate == Init /\ [][NextCreate]_vars
SpecAccess == Init /\ [][NextAccess]_vars
SpecSocket == Init /\ [][NextSocket]_vars

\* ================================================================ claims

Ids == 1..Len(requests)

\* C1: of two respond calls racing on one pending request exactly one
\* succeeds: a respond call that answers success commits on a request whose
\* stored status is still pending, and a stored room id is never replaced
\* by a second one.
C1_OneRespondWins ==
    [][/\ \A p \in Calls :
            (RespondSave(p) /\ resp'.outcome = "ok")
                => requests[call[p].id].status = "pending"
       /\ \A i \in Ids :
            requests[i].roomId # NoRoom => requests'[i].roomId = requests[i].roomId]_vars

\* C2: the stored status of a request changes only away from pending:
\* pending -> accepted, pending -> rejected, pending -> expired.
C2_StatusMonotonic ==
    [][\A i \in Ids :
        requests'[i].status # requests[i].status
            => /\ requests[i].status = "pending"
               /\ requests'[i].status \in {"accepted", "rejected", "expired"}]_vars

\* C3: a stored request has a roomId if and only if its status is accepted.
C3_RoomIdIffAccepted ==
    \A i \in Ids : (requests[i].roomId # NoRoom) <=> (requests[i].status = "accepted")

\* C7: the store never holds two pending requests of one
\* (requester, target, post) triple.
C7_OnePendingPerTriple ==
    \A i \in Ids, j \in Ids :
        (/\ i # j
         /\ requests[i].status = "pending"
         /\ requests[j].status = "pending"
         /\ requests[i].requester = requests[j].requester
         /\ requests[i].target = requests[j].target)
            => requests[i].post # requests[j].post

\* C9: every accepted request has a roomId, no two requests hold or ever
\* held the same roomId, and a roomId once stored on a request stays on it.
C9_RoomIdUniqueForever ==
    /\ \A i \in Ids : requests[i].status = "accepted" => requests[i].roomId # NoRoom
    /\ \A i \in Ids, j \in Ids :
        (i # j /\ requests[i].roomId # NoRoom) => requests[i].roomId # requests[j].roomId
    /\ \A m \in minted, n \in minted : m[2] = n[2] => m[1] = n[1]
    /\ \A m \in minted : requests[m[1]].roomId = m[2]

\* the users a request names, read off the stored document
Member(doc, u) == u = doc.requester \/ u = doc.target

\* C8 as stated: every respond call the target makes after requestExpiry
\* fails with the request-expired error and leaves the status expired.
C8_AlwaysRequestExpired ==
    [][\A p \in Calls, id \in Ids, action \in {"accept", "reject"}, rnd \in 1..NumRandom :
        /\ (now > requests[id].requestExpiry
            /\ RespondFind(p, requests[id].target, id, action, rnd))
                => (call'[p].pc = "respond_save" /\ call'[p].outcome = "expired")
        /\ (RespondSave(p) /\ call[p].id = id /\ call[p].outcome = "expired")
                => (resp'.outcome = "expired" /\ requests'[id].status = "expired")]_vars

\* C8 amended: a respond call the target makes after requestExpiry never
\* succeeds; on a request still stored pending it fails with the
\* request-expired error and its only write sets the status to expired; on
\* a request no longer pending (one already marked expired included) it
\* fails with the already-responded error and writes nothing.
C8_ExpiredOrAlreadyResponded ==
    [][\A p \in Calls, id \in Ids, action \in {"accept", "reject"}, rnd \in 1..NumRandom :
        /\ (now > requests[id].requestExpiry
            /\ RespondFind(p, requests[id].target, id, action, rnd))
                => IF requests[id].status = "pending"
                   THEN /\ call'[p].pc = "respond_save"
                        /\ call'[p].outcome = "expired"
                        /\ call'[p].set = [status |-> "expired"]
                   ELSE /\ resp' = [kind |-> "respond", outcome |-> "already_responded"]
                        /\ call' = call
        /\ (RespondSave(p) /\ call[p].id = id /\ call[p].outcome = "expired")
                => /\ resp' = [kind |-> "respond", outcome |-> "expired"]
                   /\ requests'[id] = [requests[id] EXCEPT !.status = "expired"]]_vars

\* C8 witness: a respond call has just answered request-expired and the
\* request it was made on is stored expired, past its requestExpiry.
C8_Witness ==
    /\ resp = [kind |-> "respond", outcome |-> "expired"]
    /\ \E i \in Ids : requests[i].status = "expired" /\ now > requests[i].requestExpiry

\* what the claim C5 asks of one room access outcome: nobody but the two
\* users of the owning request is let in, and a participant who comes
\* after roomExpiry gets the outcome `late`
AccessDenies(u, rid, outcome, late) ==
    IF ~HasRoom(requests, rid) THEN outcome # "granted"
    ELSE LET doc == requests[RoomOwner(requests, rid)] IN
         /\ ~Member(doc, u) => outcome # "granted"
         /\ (Member(doc, u) /\ now > doc.roomExpiry) => outcome = late

\* C5 as stated: in every state, for every user and room id, room access by
\* a non-participant fails on both routes, and room access by a participant
\* after roomExpiry fails with the room-expired outcome on both routes.
C5_AccessFailsRoomExpired ==
    \A u \in Users, rid \in KnownRoomIds :
        /\ AccessDenies(u, rid, privateAccess(requests, now, u, rid), "expired")
        /\ AccessDenies(u, rid, roomAccess(requests, now, u, rid), "expired")

\* the outcome of GET /chat/room for a participant who comes after
\* roomExpiry: the room-expired message while the request is stored
\* accepted and active, the not-found-or-expired message otherwise
LateRoomOutcome(rid) ==
    IF /\ HasRoom(requests, rid)
       /\ requests[RoomOwner(requests, rid)].status = "accepted"
       /\ requests[RoomOwner(requests, rid)].isActive
    THEN "expired"
    ELSE "not_found_or_expired"

\* C5 amended: in every state, for every user and room id, room access by
\* a non-participant fails on both routes; room
\* access by a participant after roomExpiry fails, on GET /chat/private
\* with the room-expired outcome, on GET /chat/room with the room-expired
\* outcome while the request is stored accepted and active and with the
\* not-found-or-expired outcome once it is not.
C5_AccessFails ==
    \A u \in Users, rid \in KnownRoomIds :
        /\ AccessDenies(u, rid, privateAccess(requests, now, u, rid), "expired")
        /\ AccessDenies(u, rid, roomAccess(requests, now, u, rid), LateRoomOutcome(rid))

\* C5 witness: a participant has just been refused a room past its
\* roomExpiry (only a participant gets the room-expired outcome).
C5_Witness ==
    /\ resp.kind \in {"private", "room"}
    /\ resp.outcome = "expired"
    /\ \E i \in Ids : requests[i].roomId # NoRoom /\ now > requests[i].roomExpiry

\* C6: in every state, a room access route grants a roomId only when the
\* request owning it is accepted and its roomExpiry has not passed.
C6_GrantedOnlyAccepted ==
    \A u \in Users, rid \in KnownRoomIds :
        ("granted" \in {privateAccess(requests, now, u, rid), roomAccess(requests, now, u, rid)})
            => /\ HasRoom(requests, rid)
               /\ requests[RoomOwner(requests, rid)].status = "accepted"
               /\ now <= requests[RoomOwner(requests, rid)].roomExpiry

\* the room guard the claims C4 and C10 ask for: user u is a participant of
\* the request owning rid, which is accepted and not past its roomExpiry
RoomGuard(u, rid) ==
    /\ HasRoom(requests, rid)
    /\ Member(requests[RoomOwner(requests, rid)], u)
    /\ requests[RoomOwner(requests, rid)].status = "accepted"
    /\ now <= requests[RoomOwner(requests, rid)].roomExpiry

\* C4: sendPrivateMessage persists a message only if the sender is a
\* participant of the request owning the room, which is accepted and not
\* past its roomExpiry at the time of the write.
C4_PersistOnlyGuarded ==
    [][\A s \in Sockets, rid \in KnownRoomIds \cup {NoRoom}, text \in Texts :
        (SendPrivateMessage(s, rid, text) /\ messages' # messages)
            => RoomGuard(sockUser[s], rid)]_vars

\* C10: a socket joins the channel of a private room only if its user is a
\* participant of the request owning it, accepted and unexpired.
C10_JoinOnlyGuarded ==
    [][\A s \in Sockets, rid \in {m[2] : m \in minted} :
        (rid \in sockRooms'[s] /\ rid \notin sockRooms[s])
            => RoomGuard(sockUser[s], rid)]_vars

\* the sockets an emitted event reaches: those that joined its channel
Receivers(e) == {s \in Sockets : e.channel \in sockRooms[s]}

\* C11: a newChatRequest event reaches only sockets of the target of its
\* request, and a chatResponse / chatRequestResponse event only sockets of
\* its requester; no other connected socket receives either.
C11_EventsOnlyToAddressee ==
    \A e \in events : \A s \in Receivers(e) :
        /\ e.name = "newChatRequest"
            => sockUser[s] = requests[e.id].target
        /\ e.name \in {"chatResponse", "chatRequestResponse"}
            => sockUser[s] = requests[e.id].requester

\* the stored pending requests of one (requester, target, post) triple
PendingOf(u, target, post) ==
    {i \in Ids : /\ requests[i].requester = u
                 /\ requests[i].target = target
                 /\ requests[i].post = post
                 /\ requests[i].status = "pending"}

\* C12: while requester A has a pending request to another user B on post
\* P and no other create call is in flight, a createRequest by A for the
\* same (B, P) with a well-formed message fails with the duplicate-pending
\* error and changes nothing: the store still holds exactly the one pending
\* request of the triple and no write is under way.
C12_DuplicateRefused ==
    [][\A p \in Calls, u \in Users, recipientId \in MongoIds, post \in Posts,
         message \in {"hi", "hello", "long201"} :
        (/\ RequestMessageValid(message)
         /\ CastObjectId(recipientId) # u
         /\ CreatesInFlight = 0
         /\ PendingOf(u, CastObjectId(recipientId), post) # {}
         /\ CreateCheck(p, u, recipientId, post, message))
            => /\ resp' = [kind |-> "create", outcome |-> "duplicate"]
               /\ requests' = requests
               /\ call' = call
               /\ Cardinality(PendingOf(u, CastObjectId(recipientId), post)) = 1]_vars

\* C12 witness: a create call has just been refused as a duplicate while
\* the store holds one pending request between two different users.
C12_Witness ==
    /\ resp = [kind |-> "create", outcome |-> "duplicate"]
    /\ \E i \in Ids :
        /\ requests[i].status = "pending"
        /\ requests[i].requester # requests[i].target
        /\ PendingOf(requests[i].requester, requests[i].target, requests[i].post) = {i}

\* a request document names two users of one campus and carries it
SameCampus(doc) ==
    /\ userCampus(doc.requester) = userCampus(doc.target)
    /\ doc.campus = userCampus(doc.requester)

\* C13: a createRequest with a well-formed message to a user of another
\* campus fails with the cross-campus error, and a call that fails so
\* writes nothing; every request stored, or on its way to the store, names
\* a requester and a target of one campus and carries the requester's
\* campus in its campus field.
C13_CrossCampusRefused ==
    /\ [](/\ \A i \in Ids : SameCampus(requests[i])
          /\ \A p \in Calls : call[p].pc = "create_save" => SameCampus(call[p].doc)
          /\ \A u \in Users, recipientId \in Users \X IdForms, post \in Posts \cup {NoPost},
                message \in Texts :
                (/\ RequestMessageValid(message)
                 /\ userCampus(CastObjectId(recipientId)) # userCampus(u))
                    => CreateOutcome(requests, u, recipientId, post, message) = "campus")
    /\ [][resp' = [kind |-> "create", outcome |-> "campus"]
            => (requests' = requests /\ call' = call)]_vars

\* C13 witness: a create call has just been refused with the cross-campus
\* error while the store holds a request.
C13_Witness ==
    /\ resp = [kind |-> "create", outcome |-> "campus"]
    /\ Len(requests) > 0

\* C14: every stored request has requester # target.
C14_NoSelfRequest ==
    \A i \in Ids : requests[i].requester # requests[i].target

\* C15: a respond call made on an existing request by a user who is not
\* its target (its requester included) is answered with the forbidden
\* error and changes nothing, on POST /chat/respond/:requestId and on
\* POST /chat/request/respond.
C15_NonTargetForbidden ==
    [][\A u \in Users, id \in Ids :
        u # requests[id].target
            => /\ \A p \in Calls, action \in {"accept", "reject"}, rnd \in 1..NumRandom :
                    RespondFind(p, u, id, action, rnd)
                        => /\ resp' = [kind |-> "respond", outcome |-> "forbidden"]
                           /\ requests' = requests
                           /\ call' = call
               /\ \A response \in {"accept", "reject"} :
                    RespondAlt(u, id, response)
                        => /\ resp' = [kind |-> "respond_alt", outcome |-> "forbidden"]
                           /\ requests' = requests
                           /\ call' = call]_vars

\* C15 witness: a respond call has just been answered forbidden while the
\* store holds a pending request.
C15_Witness ==
    /\ resp.kind \in {"respond", "respond_alt"}
    /\ resp.outcome = "forbidden"
    /\ \E i \in Ids : requests[i].status = "pending"

\* C16: POST /chat/request/respond called by the target on a pending,
\* unexpired request leaves it accepted with a roomId and a roomExpiry for
\* response = accept and rejected for response = reject.
C16_AltRespondActs ==
    [][\A id \in Ids, response \in {"accept", "reject"} :
        (/\ requests[id].status = "pending"
         /\ now <= requests[id].requestExpiry
         /\ RespondAlt(requests[id].target, id, response))
            => IF response = "accept"
               THEN /\ requests'[id].status = "accepted"
                    /\ requests'[id].roomId # NoRoom
                    /\ requests'[id].roomExpiry # NoDate
               ELSE requests'[id].status = "rejected"]_vars

\* C17: once a message has been edited, a further editMessage leaves its
\* originalMessage as it is: after two or more edits originalMessage is
\* still the content from before the first edit.
C17_OriginalKept ==
    [][\A i \in 1..Len(messages) :
        messages[i].isEdited
            => messages'[i].originalMessage = messages[i].originalMessage]_vars

\* a history holds no deleted message and is in ascending createdAt order
HistoryClean(h) ==
    /\ \A k \in 1..Len(h) : ~h[k].isDeleted
    /\ \A a \in 1..Len(h), b \in 1..Len(h) : a < b => h[a].createdAt <= h[b].createdAt

ReactionsOf(doc, u) ==
    {doc.reactions[k].emoji : k \in {j \in 1..Len(doc.reactions) : doc.reactions[j].user = u}}

\* C19: the reactions of a message hold at most one entry per user; an
\* addReaction call of user u that is saved leaves u's entry with the emoji
\* of the call and the entries of the other users as they were, and no
\* other step changes the reaction of a user, so the entry carries the
\* emoji of the user's most recent addReaction.
C19_OneReactionPerUser ==
    /\ [](\A i \in 1..Len(messages) :
            \A a \in 1..Len(messages[i].reactions), b \in 1..Len(messages[i].reactions) :
                a # b => messages[i].reactions[a].user # messages[i].reactions[b].user)
    /\ [][\A i \in 1..Len(messages), u \in Users :
            /\ \A emoji \in Emojis :
                (AddReaction(i, u, emoji) /\ resp'.outcome = "ok")
                    => /\ ReactionsOf(messages'[i], u) = {emoji}
                       /\ \A v \in Users \ {u} :
                            ReactionsOf(messages'[i], v) = ReactionsOf(messages[i], v)
            /\ ReactionsOf(messages'[i], u) # ReactionsOf(messages[i], u)
                    => \E emoji \in Emojis : AddReaction(i, u, emoji)]_vars

\* C19 witness: an addReaction has just been saved on a message that holds
\* the reactions of two users.
C19_Witness ==
    /\ resp = [kind |-> "react", outcome |-> "ok"]
    /\ \E i \in 1..Len(messages) :
        /\ Len(messages[i].reactions) = 2
        /\ messages[i].reactions[1].user # messages[i].reactions[2].user

\* C20: whenever an event is emitted, the write it announces is in the
\* store: a newChatRequest names a stored pending request with the
\* requester, message and post of its payload; a chatResponse or
\* chatRequestResponse names a stored request whose status and roomId are
\* those of its payload; a newPrivateMessage names a stored message of the
\* room it is sent to, with the text of its payload.
C20_WriteBeforeEmit ==
    \A e \in events :
        /\ e.name = "newChatRequest"
            => /\ e.id \in Ids
               /\ requests[e.id].status = "pending"
               /\ requests[e.id].requester = e.data.requester
               /\ requests[e.id].message = e.data.message
               /\ requests[e.id].post = e.data.post
        /\ e.name \in {"chatResponse", "chatRequestResponse"}
            => /\ e.id \in Ids
               /\ requests[e.id].status = e.data.status
               /\ requests[e.id].roomId = e.data.roomId
        /\ e.name = "newPrivateMessage"
            => /\ e.id \in 1..Len(messages)
               /\ messages[e.id].roomId = e.channel
               /\ messages[e.id].message = e.data.message

\* C20 witness: a newChatRequest has just been emitted and the request it
\* names is stored.
C20_Witness ==
    \E e \in events :
        /\ e.name = "newChatRequest"
        /\ e.id \in Ids
        /\ requests[e.id].status = "pending"

\* C21: the sweep is idempotent, and runs of it that overlap at one time
\* value end in the state of a single run: a second sweep of a swept
\* collection changes nothing; while a run is under way every document it
\* has visited is stored as a single run on the collection it found would
\* leave it, and every other document is stored either so or as the run
\* found it; a document already expired is not written with a new value.
C21_SweepIdempotent ==
    /\ [](/\ \A t \in Times :
                cleanExpired(cleanExpired(requests, t), t) = cleanExpired(requests, t)
          /\ \A p \in SweepInFlight :
                LET single == cleanExpired(call[p].base, call[p].t) IN
                \A i \in Ids :
                    /\ i \notin call[p].todo => requests[i] = single[i]
                    /\ requests[i] \in {call[p].base[i], single[i]})
    /\ [][\A p \in Calls, i \in Ids :
            (SweepDoc(p, i) /\ requests[i].status = "expired")
                => requests'[i] = requests[i]]_vars

\* C21 witness: two runs of the sweep overlap at one time value, the second
\* has visited every document, and a request stands expired by the sweep.
C21_Witness ==
    /\ SweepInFlight = Calls
    /\ \A p \in Calls : call[p].t = now
    /\ call[2].todo = {}
    /\ call[1].todo # {}
    /\ \E i \in Ids : requests[i].status = "expired" /\ ~requests[i].isActive

\* the store with the flag only the sweep writes put back: isActive is true
\* on every document until cleanExpired clears it
SweepFlagUndone(reqs) == [i \in 1..Len(reqs) |-> [reqs[i] EXCEPT !.isActive = TRUE]]

\* C22: room access and respond do not depend on the sweep: a run of
\* cleanExpired changes no grant / deny outcome of either access route and
\* turns no respond call from success to failure or back, and in every
\* state GET /chat/room grants exactly what it would grant had the sweep
\* never cleared isActive.
C22_SweepNoDependency ==
    /\ [](\A u \in Users, rid \in KnownRoomIds :
            (roomAccess(requests, now, u, rid) = "granted")
                <=> (roomAccess(SweepFlagUndone(requests), now, u, rid) = "granted"))
    /\ [][CleanExpired =>
            /\ \A u \in Users, rid \in KnownRoomIds :
                /\ (privateAccess(requests', now, u, rid) = "granted")
                        <=> (privateAccess(requests, now, u, rid) = "granted")
                /\ (roomAccess(requests', now, u, rid) = "granted")
                        <=> (roomAccess(requests, now, u, rid) = "granted")
            /\ \A u \in Users, id \in Ids :
                (RespondOutcome(requests', now, u, id) = "ok")
                    <=> (RespondOutcome(requests, now, u, id) = "ok")]_vars

Outsider(u, rid) ==
    HasRoom(requests, rid) => ~Member(requests[RoomOwner(requests, rid)], u)

\* C24: a user who is no participant gets the same response from room
\* access whatever room id is asked for, that of an existing room or one
\* that names no room, on GET /chat/private/:roomId and on
\* GET /chat/room/:roomId.
C24_NoExistenceLeak ==
    \A u \in Users, rid1 \in KnownRoomIds, rid2 \in KnownRoomIds :
        (Outsider(u, rid1) /\ Outsider(u, rid2))
            => /\ privateAccess(requests, now, u, rid1) = privateAccess(requests, now, u, rid2)
               /\ roomAccess(requests, now, u, rid1) = roomAccess(requests, now, u, rid2)

SweepDue(doc) ==
    \/ (doc.status = "pending" /\ doc.requestExpiry < now)
    \/ (doc.status = "accepted" /\ doc.roomExpiry # NoDate /\ doc.roomExpiry < now)

C26_PersistedIsPublished ==
    [][Len(messages') > Len(messages) =>
        \E e \in events' :
            /\ e.name = "newPrivateMessage"
            /\ e.channel = messages'[Len(messages')].roomId
            /\ e.data.message = messages'[Len(messages')].message]_vars

\* C27: once createRequest, respond or sendPrivateMessage has completed its
\* store write, the caller is told that the operation succeeded, never an
\* error (HTTP 500 / messageError).
C27_PublishIsolated ==
    [][/\ Len(requests') > Len(requests) => resp' = [kind |-> "create", outcome |-> "ok"]
       /\ \A p \in Calls :
            (RespondSave(p) /\ requests' # requests /\ call[p].outcome = "ok")
                => resp' = [kind |-> "respond", outcome |-> "ok"]
       /\ Len(messages') > Len(messages) => resp'.outcome \notin {"error", "messageError"}]_vars

\* an editMessage / deleteMessage call made for user u: the methods take no
\* requester, so the call is the same whoever asks for it
EditBy(u, i, newMessage) == EditMessage(i, newMessage)
DeleteBy(u, i) == DeleteMessage(i)

\* C28: an editMessage or deleteMessage call made for a user other than
\* the sender of the message is answered with the forbidden error and
\* leaves the message unchanged.
C28_OnlySenderMutates ==
    [][\A i \in 1..Len(messages) : \A u \in Users \ {messages[i].sender} :
        /\ \A text \in Texts :
            EditBy(u, i, text)
                => (resp'.outcome = "forbidden" /\ messages'[i] = messages[i])
        /\ DeleteBy(u, i)
                => (resp'.outcome = "forbidden" /\ messages'[i] = messages[i])]_vars

\* C29: in every state, for every user and room id, GET /chat/private
\* grants access if and only if GET /chat/room grants access.
C29_RoutesAgree ==
    \A u \in Users, rid \in KnownRoomIds :
        (privateAccess(requests, now, u, rid) = "granted")
            <=> (roomAccess(requests, now, u, rid) = "granted")

\* C30: in every state, now = roomExpiry included, a request with a room
\* is in a user's active-rooms list of GET /chat/requests if and only if
\* GET /chat/room grants that user access to its room.
C30_ActiveListMatchesGuard ==
    \A u \in Users, i \in Ids :
        requests[i].roomId # NoRoom
            => ((i \in activeChats(requests, now, u))
                    <=> (roomAccess(requests, now, u, requests[i].roomId) = "granted"))
====
